---- MODULE Spec2Model ----
(***************************************************************************)
(* Model of lambda_function.py: an AWS Lambda handler that validates an    *)
(* expense record and appends it to a Google Sheets worksheet.             *)
(*                                                                         *)
(* Text is modelled as a sequence of symbols.  A symbol is one character   *)
(* where the code looks inside the text (digits, "-", ".", ",", " ") and   *)
(* an opaque word elsewhere ("Almuerzo", "Coffee").                        *)
(***************************************************************************)
EXTENDS Integers, Sequences, FiniteSets, TLC

\* ---------------------------------------------------------------- bounds
\* Number of handler invocations (each runs lambda_handler once).
NumInvocations == 2
\* Largest number of rows already populated in the worksheet at the start.
MaxInitRows == 1

\* ------------------------------------------------------------ text helpers
Digits == {"0", "1", "2", "3", "4", "5", "6", "7", "8", "9"}

DigitVal ==
    ("0" :> 0) @@ ("1" :> 1) @@ ("2" :> 2) @@ ("3" :> 3) @@ ("4" :> 4) @@
    ("5" :> 5) @@ ("6" :> 6) @@ ("7" :> 7) @@ ("8" :> 8) @@ ("9" :> 9)

DigitChar == <<"0", "1", "2", "3", "4", "5", "6", "7", "8", "9">>

IsDigits(s) == \A k \in 1..Len(s) : s[k] \in Digits

\* int(s) for a sequence of decimal digits (0 for the empty sequence).
RECURSIVE ToInt(_)
ToInt(s) ==
    IF s = <<>> THEN 0
    ELSE 10 * ToInt(SubSeq(s, 1, Len(s) - 1)) + DigitVal[s[Len(s)]]

\* str(n) for a natural number n.
RECURSIVE NatToText(_)
NatToText(n) ==
    IF n < 10 THEN <<DigitChar[n + 1]>>
    ELSE NatToText(n \div 10) \o <<DigitChar[(n % 10) + 1]>>

\* str(n) for an integer n.
IntToText(n) == IF n < 0 THEN <<"-">> \o NatToText(-n) ELSE NatToText(n)

RECURSIVE Pow10(_)
Pow10(k) == IF k = 0 THEN 1 ELSE 10 * Pow10(k - 1)

\* str.strip(): drop leading and trailing whitespace.
RECURSIVE LStrip(_)
LStrip(s) == IF s # <<>> /\ Head(s) = " " THEN LStrip(Tail(s)) ELSE s

RECURSIVE RStrip(_)
RStrip(s) ==
    IF s # <<>> /\ s[Len(s)] = " " THEN RStrip(SubSeq(s, 1, Len(s) - 1)) ELSE s

Strip(s) == RStrip(LStrip(s))

\* str.replace(old, new) for single characters.
Replace(s, old, new) == [k \in 1..Len(s) |-> IF s[k] = old THEN new ELSE s[k]]

\* str.split(sep) for a single-character separator: the texts between
\* consecutive occurrences of sep.
SepCount(s, sep, upto) == Cardinality({k \in 1..upto : s[k] = sep})

\* The position of the j-th occurrence of sep; 0 for j = 0 and Len(s) + 1
\* past the last occurrence.
SepPosition(s, sep, j) ==
    IF j = 0 THEN 0
    ELSE IF j > SepCount(s, sep, Len(s)) THEN Len(s) + 1
    ELSE CHOOSE k \in 1..Len(s) : s[k] = sep /\ SepCount(s, sep, k) = j

Split(s, sep) ==
    [j \in 1..(SepCount(s, sep, Len(s)) + 1) |->
        SubSeq(s, SepPosition(s, sep, j - 1) + 1, SepPosition(s, sep, j) - 1)]

\* ------------------------------------------------------------ JSON values
\* A JSON value of a body field: absent/null, a string or an integer.
JNull == [k |-> "none", s |-> <<>>, n |-> 0]
JStr(s) == [k |-> "str", s |-> s, n |-> 0]
JNum(n) == [k |-> "num", s |-> <<>>, n |-> n]

\* Python truthiness of a JSON value: None, "" and 0 are falsy.
Truthy(v) == (v.k = "str" /\ v.s # <<>>) \/ (v.k = "num" /\ v.n # 0)

\* str(value)
PyStr(v) ==
    IF v.k = "str" THEN v.s
    ELSE IF v.k = "num" THEN IntToText(v.n)
    ELSE <<"None">>

\* ----------------------------------------------------------- configuration
WORKSHEET_NAME == "Gastos"

VALID_CATEGORIES == <<
    <<"Criptomonedas">>, <<"Fintual">>, <<"Agua">>, <<"Arriendo">>,
    <<"Gasto", " ", "Común">>, <<"Internet">>, <<"Luz">>, <<"Almuerzo">>,
    <<"Comision", " ", "BC">>, <<"Familia">>, <<"Farmacia">>, <<"Metro">>,
    <<"Otros">>, <<"Recreacional">>, <<"Regalos">>, <<"Ropa">>,
    <<"Supermercado">>, <<"Transporte">>, <<"Vacaciones">>, <<"Apps">>,
    <<"Eventos">>, <<"Electronica">>, <<"Hogar">>, <<"Limpieza">>,
    <<"Ingreso">> >>

\* ------------------------------------------------------------- exceptions
\* The result of a call: a returned value or a raised exception.
NoError == [kind |-> "none", field |-> "", options |-> <<>>]
ExpenseError(kind, field) == [kind |-> kind, field |-> field, options |-> <<>>]

Returned(val) == [ok |-> TRUE, val |-> val, err |-> NoError]
Raised(err) == [ok |-> FALSE, val |-> <<>>, err |-> err]

\* -------------------------------------------------------------- validators
IsLeap(y) == (y % 4 = 0 /\ y % 100 # 0) \/ y % 400 = 0

DaysInMonth(m, y) ==
    IF m = 2 THEN (IF IsLeap(y) THEN 29 ELSE 28)
    ELSE IF m \in {4, 6, 9, 11} THEN 30 ELSE 31

\* datetime(y, m, d) exists (MINYEAR is 1).
IsCalendarDate(d, m, y) ==
    /\ d \in 1..31
    /\ m \in 1..12
    /\ y >= 1
    /\ d <= DaysInMonth(m, y)

\* datetime.strptime(date_str, "%d-%m-%Y") succeeds: the directives match
\* one or two digits (day, month) and four digits (year), separated by "-",
\* the whole text is consumed, and the result is a calendar date.
DatePartsOK(parts) ==
    /\ Len(parts) = 3
    /\ \A k \in 1..3 : IsDigits(parts[k])
    /\ Len(parts[1]) \in {1, 2}
    /\ Len(parts[2]) \in {1, 2}
    /\ Len(parts[3]) = 4
    /\ IsCalendarDate(ToInt(parts[1]), ToInt(parts[2]), ToInt(parts[3]))

StrptimeOK(date_str) == DatePartsOK(Split(date_str, "-"))

validate_date(date_str) ==
    IF StrptimeOK(date_str) THEN Returned(date_str)
    ELSE Raised(ExpenseError("date", "date"))

\* Decimal(text): [sign] digits [. digits], at least one digit; the value is
\* sign * mant / 10^scale.  Exponents and the special values are outside the
\* alphabet of the inputs of this model.
DecimalOf(neg, int, frac) ==
    IF IsDigits(int) /\ IsDigits(frac) /\ Len(int) + Len(frac) >= 1
    THEN [valid |-> TRUE, neg |-> neg, mant |-> ToInt(int \o frac),
          scale |-> Len(frac)]
    ELSE [valid |-> FALSE, neg |-> neg, mant |-> 0, scale |-> 0]

DecimalOfParts(neg, parts) ==
    IF Len(parts) = 1 THEN DecimalOf(neg, parts[1], <<>>)
    ELSE IF Len(parts) = 2 THEN DecimalOf(neg, parts[1], parts[2])
    ELSE [valid |-> FALSE, neg |-> neg, mant |-> 0, scale |-> 0]

ParseDecimal(text) ==
    IF text # <<>> /\ Head(text) \in {"-", "+"}
    THEN DecimalOfParts(Head(text) = "-", Split(Tail(text), "."))
    ELSE DecimalOfParts(FALSE, Split(text, "."))

\* round(num / den) to the nearest integer, ties to even (the rounding of the
\* default decimal context used by format()).
RoundHalfEven(num, den) ==
    LET q == num \div den
        r == num % den
    IN  IF 2 * r > den \/ (2 * r = den /\ q % 2 = 1) THEN q + 1 ELSE q

\* f"{d:.2f}" for a positive decimal d = mant / 10^scale.
CentsToText(cents) ==
    NatToText(cents \div 100) \o <<".">>
    \o <<DigitChar[((cents % 100) \div 10) + 1], DigitChar[(cents % 10) + 1]>>

Format2f(mant, scale) == CentsToText(RoundHalfEven(mant * 100, Pow10(scale)))

\* The body of validate_amount for decimal_amount = d (d.valid false when
\* Decimal() raised InvalidOperation).
CheckAmount(d) ==
    IF ~d.valid THEN Raised(ExpenseError("amount_invalid", "amount"))
    ELSE IF d.neg \/ d.mant = 0
    THEN Raised(ExpenseError("amount_not_positive", "amount"))
    ELSE Returned(Format2f(d.mant, d.scale))

validate_amount(amount) == CheckAmount(ParseDecimal(Replace(amount, ",", ".")))

validate_category(category) ==
    IF \E k \in 1..Len(VALID_CATEGORIES) : VALID_CATEGORIES[k] = category
    THEN Returned(category)
    ELSE Raised([kind |-> "category", field |-> "category",
                 options |-> VALID_CATEGORIES])

RequireText(value, stripped, field_name) ==
    IF ~Truthy(value) \/ stripped = <<>>
    THEN Raised(ExpenseError("required", field_name))
    ELSE Returned(stripped)

validate_field(value, field_name) ==
    RequireText(value, Strip(PyStr(value)), field_name)

\* ------------------------------------------------------------------ events
\* The dict literal of parse_payload with description first.
FIELD_ORDER_description_first ==
    <<"description", "date", "category", "amount", "account">>

FIELD_ORDER == <<"date", "description", "category", "amount", "account">>
FieldNames == {FIELD_ORDER[k] : k \in 1..Len(FIELD_ORDER)}

EmptyExpense == [f \in FieldNames |-> <<>>]
NoFields == [f \in FieldNames |-> JNull]

\* The shapes of event['body']:
\*   "absent"        no 'body' key: the event itself carries the fields
\*   "object"        a dict
\*   "json_object"   a str that json.loads decodes to a dict
\*   "json_invalid"  a str that is not JSON
\*   "json_other"    a str that json.loads decodes to a list, number or null
\*   "other"         neither str nor dict (null, a list)
DictBodyKinds == {"absent", "object", "json_object"}
BodyKinds == DictBodyKinds \cup {"json_invalid", "json_other", "other"}

\* body = json.loads(event['body']) if isinstance(event.get('body'), str)
\*        else event.get('body', event)
ExtractBody(event) ==
    IF event.body_kind = "json_invalid"
    THEN [exc |-> "JSONDecodeError", dict |-> FALSE, fields |-> NoFields]
    ELSE IF event.body_kind \in DictBodyKinds
    THEN [exc |-> "none", dict |-> TRUE, fields |-> event.fields]
    ELSE [exc |-> "none", dict |-> FALSE, fields |-> NoFields]

\* The validator applied to a field after validate_field, if any.
SpecificValidator(f) ==
    IF f = "date" THEN "validate_date"
    ELSE IF f = "category" THEN "validate_category"
    ELSE IF f = "amount" THEN "validate_amount"
    ELSE "none"

ApplySpecific(f, text) ==
    IF f = "date" THEN validate_date(text)
    ELSE IF f = "category" THEN validate_category(text)
    ELSE IF f = "amount" THEN validate_amount(text)
    ELSE Returned(text)

\* One entry of the dict literal of parse_payload: validate_field on
\* body.get(f), then the field's own validator on its result.  calls lists
\* the validators entered, in order.
ThenSpecific(f, req) ==
    IF ~req.ok \/ SpecificValidator(f) = "none"
    THEN [res |-> req, calls |-> << <<"validate_field", f>> >>]
    ELSE [res |-> ApplySpecific(f, req.val),
          calls |-> << <<"validate_field", f>>, <<SpecificValidator(f), f>> >>]

ValidateEntry(fields, f) == ThenSpecific(f, validate_field(fields[f], f))

\* The dict literal of parse_payload, entry k onwards: entries are evaluated
\* in source order and the first exception leaves the literal.
RECURSIVE BuildExpense(_, _, _, _)
AfterEntry(fields, k, expense, calls, e) ==
    IF ~e.res.ok
    THEN [exc |-> "ExpenseError", err |-> e.res.err,
          expense |-> EmptyExpense, calls |-> calls \o e.calls]
    ELSE BuildExpense(fields, k + 1,
                      [expense EXCEPT ![FIELD_ORDER[k]] = e.res.val],
                      calls \o e.calls)

BuildExpense(fields, k, expense, calls) ==
    IF k > Len(FIELD_ORDER)
    THEN [exc |-> "none", err |-> NoError, expense |-> expense, calls |-> calls]
    ELSE AfterEntry(fields, k, expense, calls,
                    ValidateEntry(fields, FIELD_ORDER[k]))

\* The exception classes the model raises, each with its base classes.
ExceptionBases ==
    [c \in {"ExpenseError", "JSONDecodeError", "KeyError", "AttributeError",
            "APIError", "Exception"} |->
        IF c = "JSONDecodeError" THEN {"JSONDecodeError", "ValueError", "Exception"}
        ELSE IF c = "KeyError" THEN {"KeyError", "LookupError", "Exception"}
        ELSE {c, "Exception"}]

IsInstance(exc, classes) == ExceptionBases[exc] \cap classes # {}

\* The try block of parse_payload for body b.
ParseBody(b) ==
    IF b.exc # "none"
    THEN [exc |-> b.exc, err |-> NoError,
          expense |-> EmptyExpense, calls |-> <<>>]
    ELSE IF ~b.dict
    THEN \* body.get on a list, number, str or None
         [exc |-> "AttributeError", err |-> NoError,
          expense |-> EmptyExpense, calls |-> <<>>]
    ELSE BuildExpense(b.fields, 1, EmptyExpense, <<>>)

\* except (json.JSONDecodeError, KeyError) of parse_payload.
CatchPayloadError(r) ==
    IF r.exc # "none" /\ IsInstance(r.exc, {"JSONDecodeError", "KeyError"})
    THEN [r EXCEPT !.exc = "ExpenseError", !.err = ExpenseError("payload", "")]
    ELSE r

parse_payload(event) == CatchPayloadError(ParseBody(ExtractBody(event)))

\* ------------------------------------------------------------------- sheet
COLUMNS == <<"A", "B", "C", "D", "E", "F", "G", "H">>
ColumnNames == {COLUMNS[k] : k \in 1..Len(COLUMNS)}
Rows == 1..(MaxInitRows + NumInvocations + 1)
Cells == Rows \X ColumnNames

\* The content of a cell, as entered.
EmptyCell == [t |-> "empty", s |-> <<>>, n |-> 0]
TextCell(s) == [t |-> "text", s |-> s, n |-> 0]
NumCell(n) == [t |-> "num", s |-> <<>>, n |-> n]

\* float(text) of a two-decimal amount, in hundredths.
Hundredths(d) == (d.mant * 100) \div Pow10(d.scale)

FloatOf(text) == Hundredths(ParseDecimal(text))

\* column_mapping without the account column.
column_mapping_four(expense) == <<
    [col |-> "A", value |-> TextCell(expense["date"])],
    [col |-> "C", value |-> TextCell(expense["description"])],
    [col |-> "D", value |-> TextCell(expense["category"])],
    [col |-> "G", value |-> NumCell(FloatOf(expense["amount"]))] >>

\* column_mapping with the description in column B.
column_mapping_B(expense) == <<
    [col |-> "A", value |-> TextCell(expense["date"])],
    [col |-> "B", value |-> TextCell(expense["description"])],
    [col |-> "D", value |-> TextCell(expense["category"])],
    [col |-> "G", value |-> NumCell(FloatOf(expense["amount"]))],
    [col |-> "H", value |-> TextCell(expense["account"])] >>

\* column_mapping of append_to_sheet, in insertion order.
column_mapping(expense) == <<
    [col |-> "A", value |-> TextCell(expense["date"])],
    [col |-> "C", value |-> TextCell(expense["description"])],
    [col |-> "D", value |-> TextCell(expense["category"])],
    [col |-> "G", value |-> NumCell(FloatOf(expense["amount"]))],
    [col |-> "H", value |-> TextCell(expense["account"])] >>

\* The last row that holds a value (0 for an empty worksheet).
LastPopulatedRow(sh) ==
    LET used == {r \in Rows : \E c \in ColumnNames : sh[<<r, c>>] # EmptyCell}
    IN  IF used = {} THEN 0 ELSE CHOOSE r \in used : \A q \in used : q <= r

\* len(sheet.get_all_values()): the rows up to the last populated one.  For
\* an empty worksheet gspread returns [] or [[]], depending on its version.
GetAllValuesLen(sh) ==
    IF LastPopulatedRow(sh) = 0 THEN {0, 1} ELSE {LastPopulatedRow(sh)}

\* next_row off by one, either way.
NextRowPlusTwo(count) == count + 2

NextRowSame(count) == IF count = 0 THEN 1 ELSE count

\* next_row = len(sheet.get_all_values()) + 1
NextRow(count) == count + 1

\* An update that leaves a populated cell alone.
SheetUpdateIfEmpty(sh, row, col, value) ==
    IF sh[<<row, col>>] = EmptyCell THEN [sh EXCEPT ![<<row, col>>] = value]
    ELSE sh

\* sheet.update(cell, [[value]], value_input_option='USER_ENTERED')
SheetUpdate(sh, row, col, value) == [sh EXCEPT ![<<row, col>>] = value]

\* range_updated = f"{WORKSHEET_NAME}!A{next_row}:H{next_row}"
RangeUpdated(next_row) ==
    [worksheet |-> WORKSHEET_NAME, first_col |-> "A", first_row |-> next_row,
     last_col |-> "H", last_row |-> next_row]

\* The except clauses of append_to_sheet.
WrapBackendError(exc) ==
    IF IsInstance(exc, {"APIError"}) THEN ExpenseError("sheets_api", "")
    ELSE ExpenseError("insert", "")

\* ---------------------------------------------------------------- handler
create_response(status_code, body) ==
    [statusCode |-> status_code,
     headers |-> [content_type |-> "application/json", allow_origin |-> "*"],
     body |-> body]

SuccessBody(expense, updated_range) ==
    [message |-> <<"ok", expense["category"], expense["date"],
                   expense["description"], expense["amount"],
                   expense["account"], updated_range>>,
     data |-> [expense |-> expense, updated_range |-> updated_range]]

\* lambda_handler without its last except clause.
HandlerCatchesExpenseErrorOnly(exc) == IsInstance(exc, {"ExpenseError"})

\* The except clauses of lambda_handler: whether one of them catches an
\* exception raised inside the try block, and the response it returns.
HandlerCatches(exc) == IsInstance(exc, {"ExpenseError", "Exception"})

HandleException(exc, err) ==
    IF IsInstance(exc, {"ExpenseError"})
    THEN create_response(400, [error |-> err])
    ELSE create_response(500, [error |-> ExpenseError("internal", "")])

\* ------------------------------------------------------------------ inputs
Text_24_10_2025 == <<"2", "4", "-", "1", "0", "-", "2", "0", "2", "5">>
Text_1_2_2024 == <<" ", "1", "-", "2", "-", "2", "0", "2", "4", " ">>
Text_2025_10_24 == <<"2", "0", "2", "5", "-", "1", "0", "-", "2", "4">>
Text_32_13_2025 == <<"3", "2", "-", "1", "3", "-", "2", "0", "2", "5">>
Text_29_02_2025 == <<"2", "9", "-", "0", "2", "-", "2", "0", "2", "5">>

DateValues ==
    {JStr(Text_24_10_2025), JStr(Text_1_2_2024), JStr(Text_2025_10_24),
     JStr(Text_32_13_2025), JStr(Text_29_02_2025), JStr(<<" ">>), JNull}

DescriptionValues ==
    {JStr(<<"Coffee">>), JStr(<<" ", "Taxi", " ", "home", " ">>), JStr(<<>>),
     JNull}

CategoryValues ==
    {JStr(<<"Almuerzo">>), JStr(<<"Gasto", " ", "Común">>),
     JStr(<<"NotACategory">>), JStr(<<"almuerzo">>), JNull}

AmountValues ==
    {JStr(<<"3", ".", "5">>), JStr(<<"9", "9", ",", "9">>), JNum(100),
     JStr(<<"0", ".", "0", "0", "5">>), JStr(<<"0">>), JStr(<<"-", "5">>),
     JStr(<<"abc">>), JStr(<<"1", ",", "2", ".", "3">>), JNum(0), JNull}

AccountValues ==
    {JStr(<<"Cash">>), JStr(<<"Banco", " ", "de", " ", "Chile">>),
     JStr(<<" ">>), JNull}

MakeFields(date, description, category, amount, account) ==
    [f \in FieldNames |->
        IF f = "date" THEN date
        ELSE IF f = "description" THEN description
        ELSE IF f = "category" THEN category
        ELSE IF f = "amount" THEN amount
        ELSE account]

\* Every event: each body shape, with every combination of field values where
\* the body carries fields.
AllEvents ==
    {[body_kind |-> bk,
      fields |-> MakeFields(d, de, c, am, ac)] :
        bk \in DictBodyKinds, d \in DateValues, de \in DescriptionValues,
        c \in CategoryValues, am \in AmountValues, ac \in AccountValues}
    \cup {[body_kind |-> bk, fields |-> NoFields] : bk \in BodyKinds \ DictBodyKinds}

\* The events of the runs with several invocations: two valid expenses that
\* differ in every field, an unknown category and a null body.
CoffeeEvent ==
    [body_kind |-> "object",
     fields |-> MakeFields(JStr(Text_24_10_2025), JStr(<<"Coffee">>),
                           JStr(<<"Almuerzo">>), JStr(<<"3", ".", "5">>),
                           JStr(<<"Cash">>))]

TaxiEvent ==
    [body_kind |-> "json_object",
     fields |-> MakeFields(JStr(Text_1_2_2024),
                           JStr(<<" ", "Taxi", " ", "home", " ">>),
                           JStr(<<"Gasto", " ", "Común">>),
                           JStr(<<"9", "9", ",", "9">>),
                           JStr(<<"Banco", " ", "de", " ", "Chile">>))]

Events ==
    {CoffeeEvent, TaxiEvent,
     [CoffeeEvent EXCEPT !.fields["category"] = JStr(<<"NotACategory">>)],
     [body_kind |-> "other", fields |-> NoFields]}

NoEvent == [body_kind |-> "none", fields |-> NoFields]

\* Worksheets at the start: rows 1..n populated for n in 0..MaxInitRows; odd
\* rows hold a value in every column, even rows only in column E.
InitSheet(n) ==
    [cell \in Cells |->
        IF cell[1] <= n /\ (cell[1] % 2 = 1 \/ cell[2] = "E")
        THEN TextCell(<<"manual">>)
        ELSE EmptyCell]

\* ------------------------------------------------------------------- state
Invocations == 1..NumInvocations

VARIABLES
    sheet,       \* the worksheet: cell -> content
    sheet0,      \* the worksheet at the start (history)
    pc,          \* per invocation: where lambda_handler is
    event,       \* per invocation: the event received
    calls,       \* per invocation: the validators entered, in order (history)
    expense,     \* per invocation: the result of parse_payload
    row_count,   \* per invocation: len(sheet.get_all_values()) as read (history)
    next_row,    \* per invocation: next_row of append_to_sheet
    mapping,     \* per invocation: column_mapping of append_to_sheet
    ops,         \* per invocation: the backend calls issued, in order (history)
    writes,      \* per invocation: the cell updates that succeeded (history)
    responses    \* per invocation: the responses returned

vars == <<sheet, sheet0, pc, event, calls, expense, row_count, next_row,
          mapping, ops, writes, responses>>

Init ==
    /\ \E n \in 0..MaxInitRows : sheet = InitSheet(n)
    /\ sheet0 = sheet
    /\ pc = [i \in Invocations |-> "idle"]
    /\ event = [i \in Invocations |-> NoEvent]
    /\ calls = [i \in Invocations |-> <<>>]
    /\ expense = [i \in Invocations |-> EmptyExpense]
    /\ row_count = [i \in Invocations |-> 0]
    /\ next_row = [i \in Invocations |-> 0]
    /\ mapping = [i \in Invocations |-> <<>>]
    /\ ops = [i \in Invocations |-> <<>>]
    /\ writes = [i \in Invocations |-> <<>>]
    /\ responses = [i \in Invocations |-> <<>>]

\* An exception reaches the except clauses of lambda_handler.
Raise(i, exc, err) ==
    IF HandlerCatches(exc)
    THEN /\ pc' = [pc EXCEPT ![i] = "done"]
         /\ responses' =
                [responses EXCEPT ![i] = Append(@, HandleException(exc, err))]
    ELSE /\ pc' = [pc EXCEPT ![i] = "escaped"]
         /\ UNCHANGED responses

\* append_to_sheet without its except clauses.
BackendFailureUnwrapped(i, exc) == Raise(i, exc, NoError)

\* A backend call of append_to_sheet raises exc: append_to_sheet wraps it in
\* an ExpenseError, which lambda_handler catches.
BackendFailure(i, exc) == Raise(i, "ExpenseError", WrapBackendError(exc))

\* The result r of parse_payload reaches lambda_handler.
Parsed(i, r) ==
    /\ calls' = [calls EXCEPT ![i] = r.calls]
    /\ expense' = [expense EXCEPT ![i] = r.expense]
    /\ IF r.exc = "none"
       THEN /\ pc' = [pc EXCEPT ![i] = "connect"]
            /\ UNCHANGED responses
       ELSE Raise(i, r.exc, r.err)

\* lambda_handler up to its first backend call: parse_payload(event).
\* Invocations are interchangeable, so they are numbered in the order in
\* which they receive their events.
Invoke(i, e) ==
    /\ pc[i] = "idle"
    /\ \A j \in Invocations : j < i => pc[j] # "idle"
    /\ event' = [event EXCEPT ![i] = e]
    /\ Parsed(i, parse_payload(e))
    /\ UNCHANGED <<sheet, sheet0, row_count, next_row, mapping, ops, writes>>

\* Credentials.from_service_account_file and gspread.authorize, then
\* client.open_by_key(SHEET_ID).worksheet(WORKSHEET_NAME).  Neither reads nor
\* writes the worksheet's cells, so the two calls are one step; at names the
\* call that raised, if one did.
Connect(i) ==
    /\ pc[i] = "connect"
    /\ \E at \in {"none", "authorize", "open_worksheet"} :
          /\ ops' = [ops EXCEPT ![i] =
                 IF at = "authorize" THEN <<"authorize">>
                 ELSE <<"authorize", "open_worksheet">>]
          /\ IF at = "none"
             THEN pc' = [pc EXCEPT ![i] = "read"] /\ UNCHANGED responses
             ELSE \E exc \in IF at = "authorize" THEN {"Exception"}
                              ELSE {"APIError", "Exception"} :
                     BackendFailure(i, exc)
    /\ UNCHANGED <<sheet, sheet0, event, calls, expense, row_count, next_row,
                   mapping, writes>>

\* next_row = len(sheet.get_all_values()) + 1, then column_mapping = {...}
GetAllValues(i) ==
    /\ pc[i] = "read"
    /\ ops' = [ops EXCEPT ![i] = Append(@, "get_all_values")]
    /\ \E exc \in {"none", "APIError", "Exception"} :
          IF exc = "none"
          THEN /\ \E n \in GetAllValuesLen(sheet) :
                     /\ row_count' = [row_count EXCEPT ![i] = n]
                     /\ next_row' = [next_row EXCEPT ![i] = NextRow(n)]
               /\ mapping' = [mapping EXCEPT ![i] = column_mapping(expense[i])]
               /\ pc' = [pc EXCEPT ![i] = "update"]
               /\ UNCHANGED responses
          ELSE /\ BackendFailure(i, exc)
               /\ UNCHANGED <<row_count, next_row, mapping>>
    /\ UNCHANGED <<sheet, sheet0, event, calls, expense, writes>>

\* The k-th sheet.update of the loop over column_mapping succeeded.
Updated(i, k) ==
    /\ sheet' = SheetUpdate(sheet, next_row[i], mapping[i][k].col,
                            mapping[i][k].value)
    /\ writes' = [writes EXCEPT ![i] =
           Append(@, [row |-> next_row[i], col |-> mapping[i][k].col,
                      value |-> mapping[i][k].value])]
    /\ IF k = Len(mapping[i])
       THEN /\ pc' = [pc EXCEPT ![i] = "done"]
            /\ responses' = [responses EXCEPT ![i] =
                   Append(@, create_response(200,
                       SuccessBody(expense[i], RangeUpdated(next_row[i]))))]
       ELSE UNCHANGED <<pc, responses>>

\* An update loop that clears the cells it wrote when an update fails.
UpdateCellRollback(i) ==
    /\ pc[i] = "update"
    /\ ops' = [ops EXCEPT ![i] = Append(@, "update")]
    /\ \E exc \in {"none", "APIError", "Exception"} :
          IF exc = "none"
          THEN Updated(i, Len(writes[i]) + 1)
          ELSE /\ BackendFailure(i, exc)
               /\ sheet' = [cell \in Cells |->
                      IF \E k \in 1..Len(writes[i]) :
                            cell = <<writes[i][k].row, writes[i][k].col>>
                      THEN EmptyCell ELSE sheet[cell]]
               /\ UNCHANGED writes
    /\ UNCHANGED <<sheet0, event, calls, expense, row_count, next_row, mapping>>

\* One iteration of the loop over column_mapping: sheet.update of one cell;
\* after the last one append_to_sheet returns the range and lambda_handler
\* returns the 200 response.
UpdateCell(i) ==
    /\ pc[i] = "update"
    /\ ops' = [ops EXCEPT ![i] = Append(@, "update")]
    /\ \E exc \in {"none", "APIError", "Exception"} :
          IF exc = "none"
          THEN Updated(i, Len(writes[i]) + 1)
          ELSE /\ BackendFailure(i, exc)
               /\ UNCHANGED <<sheet, writes>>
    /\ UNCHANGED <<sheet0, event, calls, expense, row_count, next_row, mapping>>

\* The steps of invocation i after it has received its event.
Step(i) ==
    \/ Connect(i)
    \/ GetAllValues(i)
    \/ UpdateCell(i)

\* Two invocations run concurrently against the same worksheet.
Concurrent == {1, 2}

Next ==
    \E i \in Concurrent :
        \/ \E e \in Events : Invoke(i, e)
        \/ Connect(i)
        \/ GetAllValues(i)
        \/ UpdateCell(i)

Spec == Init /\ [][Next]_vars

\* Invocations run one after another: one starts only when no other runs.
NoneRunning == \A j \in Invocations : pc[j] \in {"idle", "done", "escaped"}

SeqNext ==
    \E i \in Invocations :
        \/ \E e \in Events : NoneRunning /\ Invoke(i, e)
        \/ Connect(i)
        \/ GetAllValues(i)
        \/ UpdateCell(i)

SeqSpec == Init /\ [][SeqNext]_vars

\* A single invocation, over every event.
OneNext ==
    \/ pc[1] = "idle" /\ \E e \in AllEvents : Invoke(1, e)
    \/ Connect(1)
    \/ GetAllValues(1)
    \/ UpdateCell(1)

OneSpec == Init /\ [][OneNext]_vars

\* ================================================================= claims
Done(i) == pc[i] = "done"
Status(i) == responses[i][1].statusCode
Failed(i) == Done(i) /\ Status(i) # 200
UpdateAttempts(i) == Len(SelectSeq(ops[i], LAMBDA o : o = "update"))
MappedColumns == <<"A", "C", "D", "G", "H">>
AllOps ==
    <<"authorize", "open_worksheet", "get_all_values",
      "update", "update", "update", "update", "update">>
IsPrefix(a, b) == Len(a) <= Len(b) /\ a = SubSeq(b, 1, Len(a))
\* The cells that differ from the worksheet at the start.
Changed == {cell \in Cells : sheet[cell] # sheet0[cell]}
WrittenCells(i) == {<<writes[i][k].row, writes[i][k].col>> : k \in 1..Len(writes[i])}
\* The cell values the claims expect for an expense, by column.
ExpectedValue(exp, col) ==
    IF col = "A" THEN TextCell(exp["date"])
    ELSE IF col = "C" THEN TextCell(exp["description"])
    ELSE IF col = "D" THEN TextCell(exp["category"])
    ELSE IF col = "G" THEN NumCell(FloatOf(exp["amount"]))
    ELSE TextCell(exp["account"])

\* C1: every invocation returns exactly one response, with status 200, 400 or
\* 500: no exception escapes lambda_handler, a running invocation can always
\* take its next step, a finished one has returned once, and the backend
\* calls issued are a prefix of authorize, open, read, five updates (no call
\* is retried).
C1_ExactlyOneResponse ==
    \A i \in Invocations :
        /\ pc[i] \in {"idle", "connect", "read", "update", "done"}
        /\ Len(responses[i]) = (IF Done(i) THEN 1 ELSE 0)
        /\ Done(i) => Status(i) \in {200, 400, 500}
        /\ pc[i] \in {"connect", "read", "update"} => ENABLED Step(i)
        /\ Done(i) => ~ENABLED Step(i)
        /\ IsPrefix(ops[i], AllOps)

C1_Witness ==
    /\ Done(1) /\ Status(1) = 500
    /\ event[1].body_kind = "json_other"

\* C2 as stated: when lambda_handler has returned, the invocation wrote 0 or
\* 5 cells.
C2_AllOrNothing ==
    \A i \in Invocations : Done(i) => Len(writes[i]) \in {0, 5}

\* C2 amended: when lambda_handler has returned, the invocation wrote 5 cells
\* if the status is 200, none if no cell update was attempted, and k-1 cells
\* if the k-th cell update failed (0 to 4: a partial row stays).
C2_WrittenCount ==
    \A i \in Invocations :
        Done(i) =>
            /\ Status(i) = 200 => Len(writes[i]) = 5
            /\ Status(i) # 200 /\ UpdateAttempts(i) = 0 => Len(writes[i]) = 0
            /\ Status(i) # 200 /\ UpdateAttempts(i) > 0 =>
                   Len(writes[i]) = UpdateAttempts(i) - 1
            /\ Len(writes[i]) \in 0..5

C2_Witness ==
    /\ Done(1) /\ Status(1) = 400
    /\ UpdateAttempts(1) = 3 /\ Len(writes[1]) = 2

\* C3: when the k-th cell update fails, the handler returns 400, the k-1
\* cells written before are the first k-1 of the columns A, C, D, G, H on the
\* target row, they still hold the written values (no rollback), and no other
\* cell of the worksheet has changed.
C3_NoRollback ==
    \A i \in Invocations :
        (Done(i) /\ UpdateAttempts(i) > 0 /\ Len(writes[i]) < 5) =>
            /\ Status(i) = 400
            /\ Len(writes[i]) = UpdateAttempts(i) - 1
            /\ \A k \in 1..Len(writes[i]) :
                  /\ writes[i][k].row = next_row[i]
                  /\ writes[i][k].col = MappedColumns[k]
                  /\ sheet[<<next_row[i], MappedColumns[k]>>] = writes[i][k].value
                  /\ writes[i][k].value # EmptyCell
            /\ Changed = WrittenCells(i)

C3_Witness ==
    /\ Done(1) /\ Status(1) = 400
    /\ UpdateAttempts(1) = 3
    /\ Changed = {<<next_row[1], "A">>, <<next_row[1], "C">>}

\* C4: an invalid request (a body that is not an object with five valid
\* fields) is answered with status 400 and reaches no backend call.
InvalidRequest(e) ==
    \/ e.body_kind \notin DictBodyKinds
    \/ \E f \in FieldNames : ~ValidateEntry(e.fields, f).res.ok

C4_InvalidRequest400 ==
    \A i \in Invocations :
        (pc[i] # "idle" /\ InvalidRequest(event[i])) =>
            /\ Done(i) /\ Status(i) = 400
            /\ ops[i] = <<>> /\ writes[i] = <<>>
            /\ sheet = sheet0

\* C5: a failure of a backend call of append_to_sheet gives status 400 with
\* the wrapped error, and status 500 is returned only when no backend call
\* was issued.
C5_BackendFailure400 ==
    \A i \in Invocations :
        Done(i) =>
            /\ (ops[i] # <<>> /\ Status(i) # 200) =>
                   /\ Status(i) = 400
                   /\ responses[i][1].body.error.kind \in {"sheets_api", "insert"}
            /\ Status(i) = 500 => ops[i] = <<>> /\ writes[i] = <<>>

C5_Witness ==
    /\ Done(1) /\ Status(1) = 400
    /\ ops[1] = <<"authorize", "open_worksheet", "get_all_values">>
    /\ responses[1][1].body.error.kind = "insert"

\* C6: status 200 is returned only after parsing succeeded and the five cell
\* updates were issued on row r = row count read + 1, columns A, C, D, G, H,
\* with the validated date, description, category, amount and account; the
\* response carries the validated expense and the range <worksheet>!A<r>:H<r>.
C6_SuccessMeansFullRow ==
    \A i \in Invocations :
        (Done(i) /\ Status(i) = 200) =>
            /\ ~InvalidRequest(event[i])
            /\ \A f \in FieldNames :
                  expense[i][f] = ValidateEntry(event[i].fields, f).res.val
            /\ responses[i][1].body.data.expense = expense[i]
            /\ Len(writes[i]) = 5
            /\ ops[i] = AllOps
            /\ \A k \in 1..5 :
                  writes[i][k] = [row |-> row_count[i] + 1,
                                  col |-> MappedColumns[k],
                                  value |-> ExpectedValue(expense[i],
                                                          MappedColumns[k])]
            /\ responses[i][1].body.data.updated_range =
                   [worksheet |-> WORKSHEET_NAME,
                    first_col |-> "A", first_row |-> row_count[i] + 1,
                    last_col |-> "H", last_row |-> row_count[i] + 1]

C6_Witness ==
    /\ Done(1) /\ Status(1) = 200
    /\ row_count[1] = 1
    /\ sheet[<<2, "G">>] = NumCell(9990)

\* C7: nothing keeps two concurrent invocations apart.  A read and an update
\* are never blocked by the other invocation; a successful update replaces
\* whatever the cell held; and two invocations that read the same row count
\* and both return 200 wrote the same five cells and return the same range.
C7_SameRow(i, j) ==
    (Done(i) /\ Done(j) /\ Status(i) = 200 /\ Status(j) = 200
        /\ row_count[i] = row_count[j]) =>
        /\ WrittenCells(i) = WrittenCells(j)
        /\ responses[i][1].body.data.updated_range =
               responses[j][1].body.data.updated_range

C7_NeverBlocked ==
    \A i \in Concurrent :
        /\ pc[i] = "read" => ENABLED GetAllValues(i)
        /\ pc[i] = "update" => ENABLED UpdateCell(i)
        /\ \A j \in Concurrent : C7_SameRow(i, j)

C7_UpdateOverwrites ==
    \A i \in Concurrent :
        Len(writes'[i]) = Len(writes[i]) + 1 =>
            sheet'[<<writes'[i][Len(writes'[i])].row,
                     writes'[i][Len(writes'[i])].col>>]
                = writes'[i][Len(writes'[i])].value

C7_NoMutualExclusion == [](C7_NeverBlocked) /\ [][C7_UpdateOverwrites]_vars

C7_Witness ==
    /\ Done(1) /\ Done(2) /\ Status(1) = 200 /\ Status(2) = 200
    /\ row_count[1] = row_count[2]
    /\ responses[1][1].body.data.updated_range =
           responses[2][1].body.data.updated_range
    /\ writes[1][1].value # writes[2][1].value
    /\ writes[1][5].value # writes[2][5].value
    /\ sheet[<<next_row[1], "A">>] = writes[1][1].value
    /\ sheet[<<next_row[1], "H">>] = writes[2][5].value

\* C8: parse_payload validates date, description, category, amount, account
\* in this order, validate_field before the field's own validator; the
\* validators entered are those up to the first invalid field, and the error
\* returned is that field's (the required-check's if that one failed).
C8_Order == <<"date", "description", "category", "amount", "account">>

C8_Own(f) ==
    IF f = "date" THEN "validate_date"
    ELSE IF f = "category" THEN "validate_category"
    ELSE IF f = "amount" THEN "validate_amount"
    ELSE "none"

C8_RequiredOK(fields, f) == validate_field(fields[f], f).ok

C8_FieldOK(fields, f) ==
    /\ C8_RequiredOK(fields, f)
    /\ f = "date" => validate_date(validate_field(fields[f], f).val).ok
    /\ f = "category" => validate_category(validate_field(fields[f], f).val).ok
    /\ f = "amount" => validate_amount(validate_field(fields[f], f).val).ok

C8_FirstBad(fields) ==
    IF \A k \in 1..5 : C8_FieldOK(fields, C8_Order[k]) THEN 6
    ELSE CHOOSE k \in 1..5 :
            /\ ~C8_FieldOK(fields, C8_Order[k])
            /\ \A m \in 1..(k - 1) : C8_FieldOK(fields, C8_Order[m])

C8_CallsOf(fields, f) ==
    IF ~C8_RequiredOK(fields, f) \/ C8_Own(f) = "none"
    THEN << <<"validate_field", f>> >>
    ELSE << <<"validate_field", f>>, <<C8_Own(f), f>> >>

RECURSIVE C8_Expected(_, _, _)
C8_Expected(fields, k, last) ==
    IF k > last THEN <<>>
    ELSE C8_CallsOf(fields, C8_Order[k]) \o C8_Expected(fields, k + 1, last)

C8_FailFastInOrder ==
    \A i \in Invocations :
        (pc[i] # "idle" /\ event[i].body_kind \in DictBodyKinds) =>
            LET fields == event[i].fields
                bad == C8_FirstBad(fields)
            IN  /\ calls[i] = C8_Expected(fields, 1, IF bad = 6 THEN 5 ELSE bad)
                /\ bad <= 5 =>
                      /\ Done(i) /\ Status(i) = 400 /\ ops[i] = <<>>
                      /\ responses[i][1].body.error.field = C8_Order[bad]
                      /\ (responses[i][1].body.error.kind = "required")
                             <=> ~C8_RequiredOK(fields, C8_Order[bad])
                /\ bad = 6 => (Done(i) => ops[i] # <<>>)

C8_Witness ==
    /\ Done(1) /\ Status(1) = 400
    /\ event[1].fields["date"] = JStr(Text_1_2_2024)
    /\ event[1].fields["description"] = JStr(<<"Coffee">>)
    /\ event[1].fields["category"] = JStr(<<"almuerzo">>)
    /\ event[1].fields["amount"] = JStr(<<"abc">>)
    /\ event[1].fields["account"] = JNull
    /\ responses[1][1].body.error.kind = "category"
    /\ calls[1] = << <<"validate_field", "date">>, <<"validate_date", "date">>,
                     <<"validate_field", "description">>,
                     <<"validate_field", "category">>,
                     <<"validate_category", "category">> >>

\* C9: after any sequence of invocations every cell of columns B, E, F holds
\* the value it had at the start, every cell an invocation wrote is in its
\* target row and in one of the columns A, C, D, G, H, and no other cell has
\* changed.
C9_OnlyMappedCells ==
    /\ \A cell \in Cells : cell[2] \in {"B", "E", "F"} => sheet[cell] = sheet0[cell]
    /\ \A i \in Invocations : \A k \in 1..Len(writes[i]) :
          /\ writes[i][k].row = next_row[i]
          /\ writes[i][k].col \in {"A", "C", "D", "G", "H"}
    /\ \A cell \in Changed : \E i \in Invocations : cell \in WrittenCells(i)

C9_Witness ==
    /\ sheet0[<<1, "B">>] # EmptyCell
    /\ Done(1) /\ Status(1) = 200
    /\ Done(2) /\ Status(2) = 400 /\ Len(writes[2]) = 3
    /\ \A c \in {"B", "E", "F"} :
          sheet[<<next_row[1], c>>] = EmptyCell /\ sheet[<<next_row[2], c>>] = EmptyCell

\* C10: when invocations run one after another, a cell update never touches
\* a populated cell: it goes to an empty cell, in a row beyond every row that
\* held a value when the invocation read the row count, so every populated
\* cell keeps its value.
C10_Step ==
    /\ \A cell \in Cells : sheet[cell] # EmptyCell => sheet'[cell] = sheet[cell]
    /\ \A i \in Invocations :
          Len(writes'[i]) = Len(writes[i]) + 1 =>
              /\ LastPopulatedRow(sheet) <= next_row[i]
              /\ Len(writes[i]) = 0 => LastPopulatedRow(sheet) < next_row[i]
              /\ LastPopulatedRow(sheet') = next_row[i]

C10_NeverOverwrites == [][C10_Step]_vars

C10_Witness ==
    /\ Done(1) /\ Status(1) = 400 /\ Len(writes[1]) = 2
    /\ Done(2) /\ Status(2) = 200
    /\ next_row[2] = next_row[1] + 1
    /\ sheet[<<next_row[1], "A">>] = writes[1][1].value
    /\ sheet[<<next_row[1], "D">>] = EmptyCell

====
